---- MODULE Spec2Model ----
(***************************************************************************)
(* A model of silero-api-server: the session manager, the text chunker,   *)
(* the synthesis orchestrator, the sample cache and the language registry *)
(* of src/silero_api_server/tts.py, driven by the request handlers of     *)
(* src/silero_api_server/server.py.                                        *)
(*                                                                         *)
(* Text is a sequence of one-character strings.  A path is a sequence of   *)
(* path components from the working directory, each component a sequence   *)
(* of the tokens of its name.  An audio clip is a sequence of parts: a     *)
(* silence of some milliseconds or the synthesis of one text by a speaker. *)
(***************************************************************************)
EXTENDS Naturals, Sequences, FiniteSets, TLC

VARIABLES
    \* --- text chunker (SileroTtsService.split_text) ---
    text,             \* the argument of the call
    max_char_length,  \* self.max_char_length (600 in the source, scaled down here)
    chunk_list,       \* the list the call returned
    split_pc,         \* "call" before split_text ran, "return" after
    \* --- filesystem below the working directory ---
    dirs,             \* the directories that exist (paths from the working directory)
    files,            \* the files that exist below sessions/ (paths)
    \* --- clock ---
    now,              \* int(time.time())
    \* --- request log ---
    passed,           \* session ids handed to create_session / init_session_path
    derived,          \* session ids create_session(None) derived from the date
    last,             \* the last call: what was asked and what came back
    served,           \* number of generate requests served so far
    \* --- sample cache (SileroTtsService.generate_samples), one entry per worker ---
    sample_text,      \* self.sample_text
    samples,          \* names of the files in the sample directory
    scratch,          \* whether the model's output file (test.wav) exists
    pc,               \* where each worker is in generate_samples
    todo,             \* the entries of iterdir() the worker has not removed yet
    idx,              \* index into model.speakers of the worker's loop
    pre,              \* the sample directory as the worker's call found it
    rebuilt,          \* the samples the worker's call renamed into place
    overlap,          \* whether another call ran while the worker's call ran
    skipped,          \* whether the worker's call took the "sample exists" branch
    snap,             \* the sample directory when the worker's call returned
    \* --- language registry (SileroTtsService.list_languages) ---
    remote,           \* what the remote index answers: the base listing and each language's
    cache,            \* langs.json: NoFile or the mapping it holds
    fetched,          \* the responses the last list_languages call received
    lang_result       \* what the last list_languages call did

chunkVars   == <<text, max_char_length, chunk_list, split_pc>>
fsVars      == <<dirs, files, now>>
logVars     == <<passed, derived, last, served>>
sampleVars  == <<sample_text, samples, scratch, pc, todo, idx, pre, rebuilt, overlap, skipped, snap>>
langVars    == <<remote, cache, fetched, lang_result>>
vars        == <<chunkVars, fsVars, logVars, sampleVars, langVars>>

----------------------------------------------------------------------------
\* Bounds of the model.

\* Longest text handed to split_text.
MaxTextLen == 5
\* Largest max_char_length tried.
MaxBudget == 3

SP == " "
NL == "\n"
Chars == {"a", "b", SP, NL}

RECURSIVE SeqsUpTo(_, _)
SeqsUpTo(S, n) ==
    IF n = 0 THEN {<<>>}
    ELSE LET shorter == SeqsUpTo(S, n - 1)
         IN  shorter \cup {Append(s, c) : s \in {x \in shorter : Len(x) = n - 1}, c \in S}

Texts == SeqsUpTo(Chars, MaxTextLen)
Budgets == 1..MaxBudget

----------------------------------------------------------------------------
\* Python's str operations, as split_text uses them.

\* text.split(' '): the pieces between single spaces, empty pieces included;
\* cur is the piece being read.
RECURSIVE str_split(_, _)
str_split(s, cur) ==
    IF s = <<>> THEN <<cur>>
    ELSE IF Head(s) = SP THEN <<cur>> \o str_split(Tail(s), <<>>)
    ELSE str_split(Tail(s), Append(cur, Head(s)))

\* word.replace('\n', ' ')
str_replace_nl(w) == [i \in 1..Len(w) |-> IF w[i] = NL THEN SP ELSE w[i]]

\* The loop of split_text over the words still to read.
RECURSIVE split_loop(_, _, _, _)
split_loop(words, chunks, chunk_str, budget) ==
    IF words = <<>>
    THEN IF Len(chunk_str) > 0 THEN Append(chunks, chunk_str) ELSE chunks
    ELSE LET word == str_replace_nl(Head(words)) \o <<SP>>
         IN  IF Len(chunk_str \o word) > budget
             THEN split_loop(Tail(words), Append(chunks, chunk_str), word, budget)
             ELSE split_loop(Tail(words), chunks, chunk_str \o word, budget)

\* A chunker that forgets the chunk it closes: the mutant of split_text.
RECURSIVE split_loop_dropping(_, _, _, _)
split_loop_dropping(words, chunks, chunk_str, budget) ==
    IF words = <<>>
    THEN IF Len(chunk_str) > 0 THEN Append(chunks, chunk_str) ELSE chunks
    ELSE LET word == str_replace_nl(Head(words)) \o <<SP>>
         IN  IF Len(chunk_str \o word) > budget
             THEN split_loop_dropping(Tail(words), chunks, word, budget)
             ELSE split_loop_dropping(Tail(words), chunks, chunk_str \o word, budget)

split_text_dropping(t, budget) == split_loop_dropping(str_split(t, <<>>), <<>>, <<>>, budget)

split_text(t, budget) == split_loop(str_split(t, <<>>), <<>>, <<>>, budget)

----------------------------------------------------------------------------
\* Reading a text as words.

RECURSIVE Concat(_)
Concat(ss) == IF ss = <<>> THEN <<>> ELSE Head(ss) \o Concat(Tail(ss))

\* The words of s: its maximal runs of characters other than the space.
RECURSIVE WordsFrom(_, _)
WordsFrom(s, cur) ==
    IF s = <<>> THEN (IF cur = <<>> THEN <<>> ELSE <<cur>>)
    ELSE IF Head(s) = SP
         THEN (IF cur = <<>> THEN <<>> ELSE <<cur>>) \o WordsFrom(Tail(s), <<>>)
         ELSE WordsFrom(Tail(s), Append(cur, Head(s)))

Words(s) == WordsFrom(s, <<>>)

HasSpace(s) == \E i \in 1..Len(s) : s[i] = SP

\* c is one word followed by the space the chunker appends.
IsOneWord(c) ==
    /\ Len(c) >= 2
    /\ c[Len(c)] = SP
    /\ ~HasSpace(SubSeq(c, 1, Len(c) - 1))

----------------------------------------------------------------------------
\* The text chunker on its own: one call of split_text on any text, any budget.

\* langs.json: absent, or present with the mapping it holds (pairs <<file, url>>).
NoFile == [exists |-> FALSE, langs |-> {}]
NoLangCall == [outcome |-> "none", had_cache |-> FALSE, langs |-> {}]
NoPath == << <<"no path">> >>
None == <<"None">>
NoCall == [op |-> "none", arg |-> None, ok |-> TRUE, ret |-> NoPath,
           speaker |-> "-", wrote |-> NoPath, audio |-> <<>>, chunks |-> <<>>]

ChunkOff == text = <<>> /\ max_char_length = MaxBudget /\ chunk_list = <<>> /\ split_pc = "off"
FsOff == dirs = {} /\ files = {} /\ now = 0
LogOff == passed = {} /\ derived = {} /\ last = NoCall /\ served = 0
SamplesOff ==
    /\ sample_text = "default"
    /\ samples = {} /\ scratch = FALSE /\ pc = <<>> /\ todo = <<>> /\ idx = <<>>
    /\ pre = <<>> /\ rebuilt = <<>> /\ overlap = <<>> /\ skipped = <<>> /\ snap = <<>>
LangOff == remote = <<>> /\ cache = NoFile /\ fetched = <<>> /\ lang_result = NoLangCall

InitChunk ==
    /\ text \in Texts
    /\ max_char_length \in Budgets
    /\ chunk_list = <<>>
    /\ split_pc = "call"
    /\ FsOff /\ LogOff /\ SamplesOff /\ LangOff

SplitText ==
    /\ split_pc = "call"
    /\ chunk_list' = split_text(text, max_char_length)
    /\ split_pc' = "return"
    /\ UNCHANGED <<text, max_char_length, fsVars, logVars, sampleVars, langVars>>

NextChunk == SplitText

SpecChunk == InitChunk /\ [][NextChunk]_vars

\* C1: every chunk split_text returns is at most max_char_length characters long
\* (the appended space counted), except a chunk that is one single word whose own
\* length is greater than max_char_length.
ChunkWithinBudget ==
    split_pc = "return" =>
        \A i \in 1..Len(chunk_list) :
            \/ Len(chunk_list[i]) <= max_char_length
            \/ IsOneWord(chunk_list[i]) /\ Len(chunk_list[i]) - 1 > max_char_length

\* C7: the words of the concatenated chunks are the words of the text with each
\* newline replaced by a space, in the same order.
ChunksKeepWords ==
    split_pc = "return" =>
        Words(Concat(chunk_list)) = Words(str_replace_nl(text))

\* C7's case: a text with a newline and several words that was cut into several chunks.
ChunksKeepWordsWitness ==
    /\ split_pc = "return"
    /\ Len(chunk_list) >= 3
    /\ \E i \in 1..Len(text) : text[i] = NL
    /\ Len(Words(str_replace_nl(text))) >= 3

----------------------------------------------------------------------------
\* Paths and the session manager (class SessionManager).

SLASH == "/"

\* The components of a relative path string: the pieces between slashes, the
\* empty ones dropped, as pathlib reads "a/b", "a/", "a//b" and "".
RECURSIVE path_parts(_, _)
path_parts(s, cur) ==
    IF s = <<>> THEN (IF cur = <<>> THEN <<>> ELSE <<cur>>)
    ELSE IF Head(s) = SLASH
         THEN (IF cur = <<>> THEN <<>> ELSE <<cur>>) \o path_parts(Tail(s), <<>>)
         ELSE path_parts(Tail(s), Append(cur, Head(s)))

\* SessionManager.__init__: self.sessions_path = Path("sessions")
sessions_path == << <<"sessions">> >>

\* self.sessions_path / session_id
session_dir(session_id) == sessions_path \o path_parts(session_id, <<>>)

\* Path.exists()
exists(p) == p \in dirs \/ p \in files

IsPrefix(p, q) == Len(p) <= Len(q) /\ SubSeq(q, 1, Len(p)) = p

\* Path.mkdir(parents=True): the directory and every missing ancestor of it
\* below the working directory.
mkdir_parents(p) == {SubSeq(p, 1, n) : n \in 1..Len(p)}

\* time.strftime("%Y%m%d"): the modelled clock starts in the last second of day
\* "0"; every later second belongs to day "1".
date_str(t) == IF t = 0 THEN <<"0">> ELSE <<"1">>

\* A get_session_path that tests self.sessions_path instead of session_path: the
\* mutant of get_session_path_ok.
get_session_path_checks_root(session_id) == exists(sessions_path)

\* get_session_path(session_id) returns (TRUE) or raises "Session not initialized" (FALSE).
get_session_path_ok(session_id) == exists(session_dir(session_id))

\* The directories after init_session_path(session_id).
init_session_path_dirs(session_id) ==
    IF ~exists(session_dir(session_id))
    THEN dirs \cup mkdir_parents(session_dir(session_id))
    ELSE dirs

\* create_session(session_id): the id it returns and the directories after it.
create_session_id(session_id) == IF session_id = None THEN date_str(now) ELSE session_id

create_session_dirs(session_id) ==
    IF session_id = None /\ ~exists(session_dir(date_str(now)))
    THEN dirs \cup mkdir_parents(session_dir(date_str(now)))
    ELSE dirs

\* Largest value of the modelled clock.
MaxClock == 1

\* The session ids the callers use: the empty id, plain names, a name with a
\* trailing slash, a nested id, and the strings the two dates format to.
SessionIds ==
    {<<>>, <<"a">>, <<"a", SLASH>>, <<"a", SLASH, "b">>, <<"b">>, <<"0">>, <<"1">>}

Call(op, arg, ok, ret) ==
    [op |-> op, arg |-> arg, ok |-> ok, ret |-> ret,
     speaker |-> "-", wrote |-> NoPath, audio |-> <<>>, chunks |-> <<>>]

InitSession ==
    /\ dirs = {sessions_path}
    /\ files = {}
    /\ now = 0
    /\ passed = {}
    /\ derived = {}
    /\ last = NoCall
    /\ served = 0
    /\ ChunkOff /\ SamplesOff /\ LangOff

InitSessionPath(session_id) ==
    /\ dirs' = init_session_path_dirs(session_id)
    /\ passed' = passed \cup {session_id}
    /\ last' = Call("init_session_path", session_id, TRUE, session_dir(session_id))
    /\ UNCHANGED <<files, now, derived, served, chunkVars, sampleVars, langVars>>

CreateSession(session_id) ==
    /\ dirs' = create_session_dirs(session_id)
    /\ passed' = IF session_id = None THEN passed ELSE passed \cup {session_id}
    /\ derived' = IF session_id = None THEN derived \cup {date_str(now)} ELSE derived
    /\ last' = Call("create_session", session_id, TRUE, create_session_id(session_id))
    /\ UNCHANGED <<files, now, served, chunkVars, sampleVars, langVars>>

GetSessionPath(session_id) ==
    /\ last' = Call("get_session_path", session_id, get_session_path_ok(session_id),
                    IF get_session_path_ok(session_id) THEN session_dir(session_id) ELSE NoPath)
    /\ UNCHANGED <<dirs, files, now, passed, derived, served, chunkVars, sampleVars, langVars>>

Tick ==
    /\ now < MaxClock
    /\ now' = now + 1
    /\ UNCHANGED <<dirs, files, logVars, chunkVars, sampleVars, langVars>>

NextSession ==
    \/ \E id \in SessionIds : InitSessionPath(id)
    \/ \E id \in SessionIds \cup {None} : CreateSession(id)
    \/ \E id \in SessionIds : GetSessionPath(id)
    \/ Tick

SpecSession == InitSession /\ [][NextSession]_vars

\* C4: after create_session returns, with an id given or with None, the directory
\* of the id it returned exists.
CreateSessionMakesDir ==
    (last.op = "create_session" /\ last.ok) => get_session_path_ok(last.ret)

\* C5: get_session_path fails for every session id that was never passed to
\* create_session or init_session_path.
UnpassedIdFails ==
    (last.op = "get_session_path" /\ last.arg \notin passed) => ~last.ok

\* The ids whose directory some call was asked for: those passed to
\* create_session or init_session_path, and the date ids create_session(None) derived.
Asked == passed \cup derived

\* C5, amended: get_session_path fails for every session id whose directory is
\* not the sessions root and is neither the directory nor an ancestor directory
\* of an id that was passed to create_session or init_session_path or that
\* create_session(None) derived from the date.
UnaskedDirFails ==
    \A id \in SessionIds :
        (/\ session_dir(id) # sessions_path
         /\ \A q \in Asked : ~IsPrefix(session_dir(id), session_dir(q)))
        => ~get_session_path_ok(id)

\* C5's case: directories were initialized, one of them nested, a date session was
\* created, and the last call was a get_session_path that raised for an id nobody asked for.
UnaskedDirFailsWitness ==
    /\ <<"a", SLASH, "b">> \in passed
    /\ derived # {}
    /\ last.op = "get_session_path"
    /\ ~last.ok
    /\ last.arg = <<"b">>
    /\ <<"b">> \notin passed

----------------------------------------------------------------------------
\* The synthesis orchestrator (SileroTtsService.generate) behind POST /tts/generate.

\* AudioSegment.silent(500)
SilenceMs == 500

Silence == [kind |-> "silence", ms |-> SilenceMs, speaker |-> "-", text |-> <<>>]

\* AudioSegment.from_file of what model.save_wav(text=t, speaker=speaker) wrote.
Segment(speaker, t) == [kind |-> "speech", ms |-> 0, speaker |-> speaker, text |-> t]

\* The file model.save_wav writes and whose path it returns, in the working directory.
model_wav == << <<"test.wav">> >>

\* The loop of generate over text_chunks, from the clip combined so far.
RECURSIVE combine_chunks(_, _, _)
combine_chunks(speaker, chunks, combined_wav) ==
    IF chunks = <<>> THEN combined_wav
    ELSE combine_chunks(speaker, Tail(chunks),
                        combined_wav \o <<Silence>> \o <<Segment(speaker, Head(chunks))>>)

\* f"tts_{speaker}_{session}_{int(time.time())}.wav", "_combined" before the suffix
\* for a chunked text: the tokens of the name, the session's characters among them.
audio_name(speaker, session, t, is_combined) ==
    <<"tts_", speaker, "_">> \o session \o <<"_", ToString(t)>>
        \o (IF is_combined THEN <<"_combined">> ELSE <<>>) \o <<".wav">>

\* session_path / name
audio_dst(speaker, session, t, is_combined) ==
    session_dir(session) \o path_parts(audio_name(speaker, session, t, is_combined), <<>>)

parent(p) == SubSeq(p, 1, Len(p) - 1)

\* generate(speaker, text, session) at time t, as a record of what it does:
\* ok (FALSE: it raised), the path it returns, the path it wrote, the clip
\* written there and the chunks it synthesized.
generate(speaker, t_text, session, t) ==
    LET long     == Len(t_text) > max_char_length
        chunks   == IF long THEN split_text(t_text, max_char_length) ELSE <<>>
        dst      == audio_dst(speaker, session, t, long)
        clip     == IF long THEN combine_chunks(speaker, chunks, <<>>)
                    ELSE <<Segment(speaker, t_text)>>
    IN  IF ~get_session_path_ok(session) \/ parent(dst) \notin dirs
        THEN [op |-> "generate", arg |-> session, ok |-> FALSE, ret |-> NoPath,
              speaker |-> speaker, wrote |-> NoPath, audio |-> <<>>, chunks |-> chunks]
        ELSE [op |-> "generate", arg |-> session, ok |-> TRUE,
              ret |-> IF long THEN dst ELSE model_wav,
              speaker |-> speaker, wrote |-> dst, audio |-> clip, chunks |-> chunks]

\* Most generate requests served in one run of the model.
MaxRequests == 2

\* self.model.speakers
model_speakers == <<"en_0", "en_1">>

Speakers == {model_speakers[i] : i \in 1..Len(model_speakers)}

\* The texts of the generate requests.
GenTexts == SeqsUpTo({"a", SP}, MaxTextLen - 2)

\* The sessions the generate requests name (None: no session given).
GenSessions == {None, <<"a">>, <<"a", SLASH, "b">>}

InitGenerate ==
    /\ dirs = {sessions_path}
    /\ files = {}
    /\ now = 0
    /\ passed = {}
    /\ derived = {}
    /\ last = NoCall
    /\ served = 0
    /\ max_char_length \in Budgets
    /\ text = <<>> /\ chunk_list = <<>> /\ split_pc = "off"
    /\ SamplesOff /\ LangOff

\* POST /tts/session (server.init_session)
PostSession(session_id) ==
    /\ dirs' = init_session_path_dirs(session_id)
    /\ passed' = passed \cup {session_id}
    /\ last' = Call("init_session_path", session_id, TRUE, session_dir(session_id))
    /\ UNCHANGED <<files, now, derived, served, chunkVars, sampleVars, langVars>>

\* POST /tts/generate (server.generate): the session is created from the date when
\* none is given and must exist otherwise; then SileroTtsService.generate runs.
PostGenerate(speaker, t_text, session) ==
    /\ served < MaxRequests
    /\ served' = served + 1
    /\ IF session = None
       THEN /\ dirs' = create_session_dirs(None)
            /\ derived' = derived \cup {date_str(now)}
            /\ LET r == generate(speaker, t_text, create_session_id(None), now)
               IN  /\ last' = r
                   /\ files' = IF r.ok THEN files \cup {r.wrote} ELSE files
                   /\ scratch' = TRUE
       ELSE /\ derived' = derived
            /\ IF ~get_session_path_ok(session)
               THEN /\ last' = [op |-> "generate", arg |-> session, ok |-> FALSE,
                                ret |-> NoPath, speaker |-> speaker, wrote |-> NoPath,
                                audio |-> <<>>, chunks |-> <<>>]
                    /\ UNCHANGED <<dirs, files, scratch>>
               ELSE LET r == generate(speaker, t_text, session, now)
                    IN  /\ dirs' = init_session_path_dirs(session)
                        /\ last' = r
                        /\ files' = IF r.ok THEN files \cup {r.wrote} ELSE files
                        /\ scratch' = TRUE
    /\ UNCHANGED <<now, passed, chunkVars, langVars,
                   sample_text, samples, pc, todo, idx, pre, rebuilt, overlap, skipped, snap>>

NextGenerate ==
    \/ \E id \in GenSessions \ {None} : PostSession(id)
    \/ \E sp \in Speakers, t \in GenTexts, se \in GenSessions : PostGenerate(sp, t, se)
    \/ Tick

SpecGenerate == InitGenerate /\ [][NextGenerate]_vars

\* The clip the claim describes: the segments of the chunks in order, a silence
\* between consecutive ones only.
RECURSIVE SilenceBetween(_, _)
SilenceBetween(speaker, chunks) ==
    IF chunks = <<>> THEN <<>>
    ELSE IF Len(chunks) = 1 THEN <<Segment(speaker, Head(chunks))>>
    ELSE <<Segment(speaker, Head(chunks)), Silence>> \o SilenceBetween(speaker, Tail(chunks))

\* C2: for a text longer than max_char_length that splits into n chunks, the
\* combined clip is the n segments in chunk order with exactly n-1 silences, none
\* before the first segment and none after the last.
CombinedHasInnerSilencesOnly ==
    (last.op = "generate" /\ last.ok /\ last.chunks # <<>>) =>
        last.audio = SilenceBetween(last.speaker, last.chunks)

\* C3: the path generate returns is the path of the file this call wrote in the
\* session directory.
ReturnsWrittenArtifact ==
    (last.op = "generate" /\ last.ok) => (last.ret = last.wrote /\ last.ret \in files)

\* C6: no generate call writes to a path that an earlier generate call produced.
ArtifactWriteOnce ==
    [][(served' = served + 1 /\ last'.ok) => last'.wrote \notin files]_vars

----------------------------------------------------------------------------
\* The sample cache (SileroTtsService.generate_samples) behind POST
\* /tts/generate-samples.  The handler is a plain function, which the framework
\* runs on its pool of worker threads, so calls interleave between filesystem
\* operations; each action below is one such operation of one worker.

Workers == {"w1", "w2"}

\* f"{speaker}.wav"
sample_name(speaker) == <<speaker, ".wav">>

AllSamples == {sample_name(sp) : sp \in Speakers}

\* What the sample directory may hold when the server starts serving: samples of
\* the speakers and a file that is no speaker's.
PriorFiles == AllSamples \cup {<<"old", ".wav">>}

\* The sample texts a request may carry; the empty one leaves sample_text alone.
SampleTexts == {"", "hello"}

Active == {"remove", "check", "save", "rename"}

Running(w) == pc[w] \in Active

InitSamples ==
    /\ sample_text = "default"
    /\ samples \in SUBSET PriorFiles
    /\ scratch \in BOOLEAN
    /\ pc = [w \in Workers |-> "idle"]
    /\ todo = [w \in Workers |-> {}]
    /\ idx = [w \in Workers |-> 1]
    /\ pre = [w \in Workers |-> {}]
    /\ rebuilt = [w \in Workers |-> {}]
    /\ overlap = [w \in Workers |-> FALSE]
    /\ skipped = [w \in Workers |-> FALSE]
    /\ snap = [w \in Workers |-> {}]
    /\ ChunkOff /\ FsOff /\ LogOff /\ LangOff

\* update_sample_text(text)
update_sample_text(t) == IF t = "" THEN sample_text ELSE t

\* The request arrives: update_sample_text, then generate_samples lists the
\* sample directory (iterdir).
Begin(w, t) ==
    /\ ~Running(w)
    /\ sample_text' = update_sample_text(t)
    /\ todo' = [todo EXCEPT ![w] = samples]
    /\ pre' = [pre EXCEPT ![w] = samples]
    /\ rebuilt' = [rebuilt EXCEPT ![w] = {}]
    /\ skipped' = [skipped EXCEPT ![w] = FALSE]
    /\ idx' = [idx EXCEPT ![w] = 1]
    /\ snap' = [snap EXCEPT ![w] = {}]
    /\ overlap' = [o \in Workers |->
                      IF o = w THEN \E x \in Workers \ {w} : Running(x)
                      ELSE overlap[o] \/ Running(o)]
    /\ pc' = [pc EXCEPT ![w] = IF samples = {} THEN "check" ELSE "remove"]
    /\ UNCHANGED <<samples, scratch, chunkVars, fsVars, logVars, langVars>>

\* A removal loop that deletes nothing: the mutant of Remove.
RemoveNothing(w) ==
    /\ pc[w] = "remove"
    /\ todo' = [todo EXCEPT ![w] = {}]
    /\ pc' = [pc EXCEPT ![w] = "check"]
    /\ UNCHANGED <<sample_text, samples, scratch, idx, pre, rebuilt, overlap, skipped,
                   snap, chunkVars, fsVars, logVars, langVars>>

\* os.remove of one listed entry; it raises when the file is gone already.
Remove(w) ==
    /\ pc[w] = "remove"
    /\ \E f \in todo[w] :
          IF f \in samples
          THEN /\ samples' = samples \ {f}
               /\ todo' = [todo EXCEPT ![w] = @ \ {f}]
               /\ pc' = [pc EXCEPT ![w] = IF todo[w] = {f} THEN "check" ELSE "remove"]
          ELSE /\ pc' = [pc EXCEPT ![w] = "failed"]
               /\ UNCHANGED <<samples, todo>>
    /\ UNCHANGED <<sample_text, scratch, idx, pre, rebuilt, overlap, skipped, snap,
                   chunkVars, fsVars, logVars, langVars>>

\* The end of one pass of the loop over model.speakers: the next speaker, or the return.
NextSpeakerPc(w) == IF idx[w] = Len(model_speakers) THEN "returned" ELSE "check"

\* if sample_name.exists(): continue
Check(w) ==
    /\ pc[w] = "check"
    /\ IF sample_name(model_speakers[idx[w]]) \in samples
       THEN /\ skipped' = [skipped EXCEPT ![w] = TRUE]
            /\ idx' = [idx EXCEPT ![w] = IF @ = Len(model_speakers) THEN @ ELSE @ + 1]
            /\ pc' = [pc EXCEPT ![w] = NextSpeakerPc(w)]
            /\ snap' = [snap EXCEPT ![w] = IF NextSpeakerPc(w) = "returned" THEN samples ELSE @]
       ELSE /\ pc' = [pc EXCEPT ![w] = "save"]
            /\ UNCHANGED <<skipped, idx, snap>>
    /\ UNCHANGED <<sample_text, samples, scratch, todo, pre, rebuilt, overlap,
                   chunkVars, fsVars, logVars, langVars>>

\* self.model.save_wav(...): the model writes its output file.
SaveWav(w) ==
    /\ pc[w] = "save"
    /\ scratch' = TRUE
    /\ pc' = [pc EXCEPT ![w] = "rename"]
    /\ UNCHANGED <<sample_text, samples, todo, idx, pre, rebuilt, overlap, skipped, snap,
                   chunkVars, fsVars, logVars, langVars>>

\* A rename that moves the file but not into the sample directory: the mutant of Rename.
RenameElsewhere(w) ==
    /\ pc[w] = "rename"
    /\ scratch
    /\ scratch' = FALSE
    /\ rebuilt' = [rebuilt EXCEPT ![w] = @ \cup {sample_name(model_speakers[idx[w]])}]
    /\ idx' = [idx EXCEPT ![w] = IF @ = Len(model_speakers) THEN @ ELSE @ + 1]
    /\ pc' = [pc EXCEPT ![w] = NextSpeakerPc(w)]
    /\ snap' = [snap EXCEPT ![w] = IF NextSpeakerPc(w) = "returned" THEN samples ELSE @]
    /\ UNCHANGED <<sample_text, samples, todo, pre, overlap, skipped,
                   chunkVars, fsVars, logVars, langVars>>

\* audio.rename(sample): it raises when the model's output file is gone (another
\* worker renamed it), and, where the platform's rename refuses an existing
\* target, when the sample is there already.
Rename(w) ==
    /\ pc[w] = "rename"
    /\ LET name == sample_name(model_speakers[idx[w]])
       IN  \/ /\ scratch
              /\ scratch' = FALSE
              /\ samples' = samples \cup {name}
              /\ rebuilt' = [rebuilt EXCEPT ![w] = @ \cup {name}]
              /\ idx' = [idx EXCEPT ![w] = IF @ = Len(model_speakers) THEN @ ELSE @ + 1]
              /\ pc' = [pc EXCEPT ![w] = NextSpeakerPc(w)]
              /\ snap' = [snap EXCEPT ![w] =
                             IF NextSpeakerPc(w) = "returned" THEN samples \cup {name} ELSE @]
           \/ /\ ~scratch \/ name \in samples
              /\ pc' = [pc EXCEPT ![w] = "failed"]
              /\ UNCHANGED <<scratch, samples, rebuilt, idx, snap>>
    /\ UNCHANGED <<sample_text, todo, pre, overlap, skipped,
                   chunkVars, fsVars, logVars, langVars>>

NextSamples ==
    \/ \E w \in Workers, t \in SampleTexts : Begin(w, t)
    \/ \E w \in Workers : Remove(w)
    \/ \E w \in Workers : Check(w)
    \/ \E w \in Workers : SaveWav(w)
    \/ \E w \in Workers : Rename(w)

SpecSamples == InitSamples /\ [][NextSamples]_vars

\* What the claim promises of a call that returned: one file per speaker and
\* nothing else, and nothing of before the call unless this call rebuilt it.
RegeneratedWholesale(w) ==
    /\ snap[w] = AllSamples
    /\ (snap[w] \cap pre[w]) \subseteq rebuilt[w]

\* C8: when a generate_samples call returns, the sample directory holds exactly
\* one file per speaker, and no file of before the call survives unless this call
\* rebuilt it.
SamplesRegenerated ==
    \A w \in Workers : pc[w] = "returned" => RegeneratedWholesale(w)

\* C8, amended: the same, for a call that no other call overlapped.
SamplesRegeneratedAlone ==
    \A w \in Workers : (pc[w] = "returned" /\ ~overlap[w]) => RegeneratedWholesale(w)

\* C8's case: a call that ran alone on a directory holding a speaker's sample and a
\* stray file has returned.
SamplesRegeneratedWitness ==
    \E w \in Workers :
        /\ pc[w] = "returned"
        /\ ~overlap[w]
        /\ pre[w] = {sample_name("en_0"), <<"old", ".wav">>}

\* C10: the "sample exists" branch is never taken, whether calls run one at a time
\* or concurrently.
SkipNeverTaken ==
    \A w \in Workers : ~skipped[w]

\* C10, amended: the branch is never taken by a call that no other call overlapped.
SkipNeverTakenAlone ==
    \A w \in Workers : skipped[w] => overlap[w]

\* C10's case: a call that ran alone on a directory holding every speaker's sample
\* has passed the existence check of every speaker.
SkipNeverTakenWitness ==
    \E w \in Workers :
        /\ pc[w] = "returned"
        /\ ~overlap[w]
        /\ AllSamples \subseteq pre[w]
        /\ ~skipped[w]

----------------------------------------------------------------------------
\* The language registry (SileroTtsService.list_languages), called once by
\* SileroTtsService.__init__ when the server process starts.
\*
\* A response is its status (ok) and its body; the body is the sequence of the
\* link targets that follow each '<a href="' in it, a target being the sequence
\* of the tokens of its text.

\* The language directories the remote index may list.
Langs == {"en", "de"}

\* The bodies of the base listing: no link, one language, both.
BaseBodies == {<<>>, << <<"en", SLASH>> >>, << <<"de", SLASH>> >>,
               << <<"en", SLASH>>, <<"de", SLASH>> >>}

\* The bodies of a language's listing: model files of two versions.
SubBodies == {<<>>, << <<"v3", "_en.pt">> >>, << <<"v2", "_en.pt">>, <<"v3", "_de.pt">> >>,
              << <<"v3", "_en.pt">>, <<"v3", "_de.pt">> >>}

BaseResponses == [ok : BOOLEAN, body : BaseBodies]
SubResponses == [ok : BOOLEAN, body : SubBodies]

\* lang.split('/')[0]
first_component(target) ==
    IF \E i \in 1..Len(target) : target[i] = SLASH
    THEN SubSeq(target, 1, (CHOOSE i \in 1..Len(target) :
                               target[i] = SLASH /\ \A j \in 1..(i - 1) : target[j] # SLASH) - 1)
    ELSE target

\* [lang.split('/')[0] for lang in response.text.split('<a href="')][1:]
parse_langs(body) == [i \in 1..Len(body) |-> first_component(body[i])]

\* lang_file.startswith('v3')
is_v3(target) == Len(target) >= 1 /\ target[1] = "v3"

\* lang_urls[lang_file] = f"{lang_base_url}/{lang}/{lang_file}" for the v3 files
\* of one listing, later entries replacing earlier ones of the same name.
RECURSIVE add_files(_, _, _)
add_files(lang_urls, lang, targets) ==
    IF targets = <<>> THEN lang_urls
    ELSE LET f == Head(targets)
         IN  IF is_v3(f)
             THEN add_files({e \in lang_urls : e[1] # f} \cup {<<f, <<lang, f>>>>},
                            lang, Tail(targets))
             ELSE add_files(lang_urls, lang, Tail(targets))

\* The loop over langs: the fetches made, whether one raised, the mapping so far.
RECURSIVE fetch_langs(_, _, _)
fetch_langs(langs, subs, acc) ==
    IF langs = <<>> THEN acc
    ELSE LET response == subs[Head(langs)[1]]
             seen == Append(acc.fetched, [url |-> Head(langs), ok |-> response.ok])
         IN  IF ~response.ok
             THEN [fetched |-> seen, raised |-> TRUE, lang_urls |-> acc.lang_urls]
             ELSE fetch_langs(Tail(langs), subs,
                              [fetched |-> seen, raised |-> FALSE,
                               lang_urls |-> add_files(acc.lang_urls, Head(langs), response.body)])

\* list_languages() without a cache file, given the responses of the remote index.
list_remote(base, subs) ==
    fetch_langs(parse_langs(base.body), subs,
                [fetched |-> <<[url |-> <<"tts">>, ok |-> base.ok]>>,
                 raised |-> FALSE, lang_urls |-> {}])

InitLang ==
    /\ remote \in [base : BaseResponses, subs : [Langs -> SubResponses]]
    /\ cache = NoFile
    /\ fetched = <<>>
    /\ lang_result = NoLangCall
    /\ ChunkOff /\ FsOff /\ LogOff /\ SamplesOff

\* The server starts: list_languages() with the responses the remote index gives.
ListLanguages ==
    /\ IF cache.exists
       THEN /\ lang_result' = [outcome |-> "cached", had_cache |-> TRUE, langs |-> cache.langs]
            /\ fetched' = <<>>
            /\ cache' = cache
       ELSE LET r == list_remote(remote.base, remote.subs)
            IN  /\ fetched' = r.fetched
                /\ IF r.raised
                   THEN /\ lang_result' = [outcome |-> "raised", had_cache |-> FALSE, langs |-> {}]
                        /\ cache' = cache
                   ELSE /\ lang_result' = [outcome |-> "built", had_cache |-> FALSE,
                                           langs |-> r.lang_urls]
                        /\ cache' = [exists |-> TRUE, langs |-> r.lang_urls]
    /\ UNCHANGED <<remote, chunkVars, fsVars, logVars, sampleVars>>

NextLang == ListLanguages

SpecLang == InitLang /\ [][NextLang]_vars

\* C9: without a cache file, when any fetch list_languages made (the base listing
\* or a language's listing) returned a non-success status, list_languages raises
\* instead of building, persisting and returning a mapping.
FailedFetchRaises ==
    (/\ lang_result.outcome # "none"
     /\ ~lang_result.had_cache
     /\ \E i \in 1..Len(fetched) : ~fetched[i].ok)
    => lang_result.outcome = "raised"

====
